---- MODULE Spec2Model ----
(***************************************************************************)
(* Model of the Google Trends fetch pipeline (google_trends.py, app.py):   *)
(* keyword batching, the file cache with its TTL, the per-batch retry      *)
(* loop, the chunked dispatch of batches to a thread pool and the merge of *)
(* the per-batch tables.                                                   *)
(*                                                                         *)
(* Strings are sequences of character codes (so that sorted() and join()   *)
(* are computed, not assumed); time is counted in hours.                   *)
(***************************************************************************)
EXTENDS Integers, Sequences, FiniteSets, TLC

VARIABLES
    fin, fout, fop,               \* a pure function's input, output, and which one ran
    cache, now, lastGet, lastPut, \* the cache directory, the clock, and the last get / the puts
    keywords,                     \* the argument of fetch_trends_data
    run, rpc,                     \* the number of the run and where fetch_trends_data is
    batches, i, all_data,         \* its locals (lines 91, 92, 103)
    session_pool, threads,        \* the session dictionary and the number of executor threads
    tasks,                        \* the chunk's fetch_batch calls
    started, result,              \* when the run began and what it returned
    succeeded, network_used,      \* the batches that returned a table; whether the service was called
    prev,                         \* the previous run: its result and what it left
    app_cache                     \* the st.cache_data store of cached_fetch_trends_data

fvars == <<fin, fout, fop>>
avars == <<app_cache>>
cvars == <<cache, now, lastGet, lastPut>>
pvars == <<keywords, run, rpc, batches, i, all_data, session_pool, threads, tasks,
           started, result, succeeded, network_used, prev>>
vars == <<fin, fout, fop, cache, now, lastGet, lastPut, keywords, run, rpc, batches, i,
          all_data, session_pool, threads, tasks, started, result, succeeded, network_used,
          prev, app_cache>>

(***************************************************************************)
(* Bounds of the model.                                                    *)
(***************************************************************************)
MaxKeys == 3        \* longest keyword list handed to get_cache_key
MaxLen == 6         \* longest keyword list handed to the batcher
MaxB == 5           \* largest batch cap tried
MaxTables == 2      \* most tables handed to a merge
MaxRuns == 2        \* runs of fetch_trends_data on the same keyword list

(***************************************************************************)
(* Program constants.                                                      *)
(***************************************************************************)
MAX_RETRIES == 3
CACHE_DURATION == 24
batch_size == 2
chunk_size == 3
max_workers == 5
app_batch_size == 5

\* Python's None and the missing value NaN of pandas.
None == [kind |-> "None"]
NaN == -1

(***************************************************************************)
(* Strings.                                                                *)
(***************************************************************************)
kw_a == <<97>>
kw_b == <<98>>
kw_c == <<99>>
kw_a_b == <<97, 45, 98>>
KeywordSet == {kw_a, kw_b, kw_a_b}
isPartial == <<105, 115, 80, 97, 114, 116, 105, 97, 108>>
today_5y == <<116, 111, 100, 97, 121, 32, 53, 45, 121>>
today_12m == <<116, 111, 100, 97, 121, 32, 49, 50, 45, 109>>
geo_DE == <<68, 69>>
geo_US == <<85, 83>>
dash == <<45>>

Min(a, b) == IF a < b THEN a ELSE b
Max(a, b) == IF a < b THEN b ELSE a

\* All sequences over S of length 0..n.
SeqsUpTo(S, n) == UNION {[1..k -> S] : k \in 0..n}

\* str.__lt__: lexicographic order by code point.
RECURSIVE StrLess(_, _)
StrLess(a, b) ==
    IF a = <<>> THEN b # <<>>
    ELSE IF b = <<>> THEN FALSE
    ELSE IF Head(a) # Head(b) THEN Head(a) < Head(b)
    ELSE StrLess(Tail(a), Tail(b))

RECURSIVE InsertSorted(_, _)
InsertSorted(x, s) ==
    IF s = <<>> THEN <<x>>
    ELSE IF StrLess(x, Head(s)) THEN <<x>> \o s
    ELSE <<Head(s)>> \o InsertSorted(x, Tail(s))

\* sorted(list of str)
RECURSIVE sorted(_)
sorted(s) == IF s = <<>> THEN <<>> ELSE InsertSorted(Head(s), sorted(Tail(s)))

\* sep.join(list of str)
RECURSIVE join(_, _)
join(sep, s) ==
    IF s = <<>> THEN <<>>
    ELSE IF Len(s) = 1 THEN s[1]
    ELSE s[1] \o sep \o join(sep, Tail(s))

\* hashlib.md5(s).hexdigest(): a digest that stands for its input (no collision).
md5(s) == [md5 |-> s]

\* get_cache_key, line 26: the string that is hashed.
query_string(kws, timeframe, geo) ==
    join(dash, sorted(kws)) \o dash \o timeframe \o dash \o geo

get_cache_key_unsorted(kws, timeframe, geo) ==
    md5(join(dash, kws) \o dash \o timeframe \o dash \o geo)

get_cache_key(kws, timeframe, geo) ==
    md5(query_string(kws, timeframe, geo))

(***************************************************************************)
(* Batching: [keywords[i:i + B] for i in range(0, len(keywords), B)].      *)
(***************************************************************************)
\* Python's s[lo:hi] for 0 <= lo <= hi.
Slice(s, lo, hi) == SubSeq(s, lo + 1, Min(hi, Len(s)))

\* list(range(start, stop, step)) for step > 0.
RECURSIVE range(_, _, _)
range(start, stop, step) ==
    IF start >= stop THEN <<>>
    ELSE <<start>> \o range(start + step, stop, step)

Batches_short(kws, B) ==
    LET r == range(0, Len(kws) - 1, B)
    IN  [j \in 1..Len(r) |-> Slice(kws, r[j], r[j] + B)]

Batches(kws, B) ==
    LET r == range(0, Len(kws), B)
    IN  [j \in 1..Len(r) |-> Slice(kws, r[j], r[j] + B)]

\* app.py line 62: total_batches = (len(keywords) + 4) // 5
total_batches(kws) == (Len(kws) + 4) \div 5

RECURSIVE Concat(_)
Concat(ss) == IF ss = <<>> THEN <<>> ELSE Head(ss) \o Concat(Tail(ss))

(***************************************************************************)
(* Specification of the batcher: a keyword list and a cap are drawn, then  *)
(* the list is batched.                                                    *)
(***************************************************************************)
EmptyMap == [k \in {} |-> None]

\* The pipeline before any run, and the cache directory before any use.
PipelineIdle ==
    /\ keywords = <<>>
    /\ run = 0
    /\ rpc = "idle"
    /\ batches = <<>>
    /\ i = 0
    /\ all_data = <<>>
    /\ session_pool = EmptyMap
    /\ threads = 0
    /\ tasks = <<>>
    /\ started = 0
    /\ result = None
    /\ succeeded = {}
    /\ network_used = FALSE
    /\ prev = None

CacheIdle ==
    /\ cache = EmptyMap
    /\ now = 0
    /\ lastGet = None
    /\ lastPut = EmptyMap
    /\ PipelineIdle

InitBatch ==
    /\ fin \in [keywords : SeqsUpTo({kw_a, kw_b}, MaxLen), B : 1..MaxB]
    /\ fout = None
    /\ app_cache = EmptyMap
    /\ fop = "none"
    /\ CacheIdle

DoBatch ==
    /\ fop = "none"
    /\ fop' = "batch"
    /\ fout' = [batches |-> Batches(fin.keywords, fin.B),
                app_batches |-> Batches(fin.keywords, app_batch_size),
                total_batches |-> total_batches(fin.keywords)]
    /\ UNCHANGED <<fin, avars, cvars, pvars>>

NextBatch == DoBatch
SpecBatch == InitBatch /\ [][NextBatch]_vars

\* ceil(n / b), defined without the batcher's arithmetic.
CeilDiv(n, b) == CHOOSE k \in 0..n : k * b >= n /\ (k = 0 \/ (k - 1) * b < n)

\* C1: for every keyword list of length N and cap B >= 1 the batcher yields
\* exactly ceil(N/B) batches, each of 1..B keywords, whose concatenation in
\* order is the original list; the empty list yields zero batches.  The
\* app's batcher (cap 5) does the same and its total_batches is that count.
C1_Batching ==
    fop = "batch" =>
        LET N == Len(fin.keywords)
            bs == fout.batches
            ab == fout.app_batches
        IN  /\ Len(bs) = CeilDiv(N, fin.B)
            /\ \A j \in 1..Len(bs) : Len(bs[j]) >= 1 /\ Len(bs[j]) <= fin.B
            /\ Concat(bs) = fin.keywords
            /\ (N = 0 => bs = <<>>)
            /\ Len(ab) = CeilDiv(N, app_batch_size)
            /\ \A j \in 1..Len(ab) : Len(ab[j]) >= 1 /\ Len(ab[j]) <= app_batch_size
            /\ Concat(ab) = fin.keywords
            /\ fout.total_batches = Len(ab)

\* A list that does not divide evenly has been split into several batches,
\* the last one short.
C1_Witness ==
    /\ fop = "batch"
    /\ Len(fin.keywords) = 5
    /\ fin.B = 2
    /\ Len(fout.batches) = 3
    /\ Len(fout.batches[3]) = 1
    /\ Len(fout.app_batches) = 1

(***************************************************************************)
(* Specification of the cache key: two keyword lists and a window are      *)
(* drawn, then both keys are computed.                                     *)
(***************************************************************************)
InitKey ==
    /\ fin \in [k1 : SeqsUpTo(KeywordSet, MaxKeys), k2 : SeqsUpTo(KeywordSet, MaxKeys),
                timeframe : {today_5y, today_12m}, geo : {geo_DE, geo_US}]
    /\ fout = None
    /\ app_cache = EmptyMap
    /\ fop = "none"
    /\ CacheIdle

DoKey ==
    /\ fop = "none"
    /\ fop' = "key"
    /\ fout' = [key1 |-> get_cache_key(fin.k1, fin.timeframe, fin.geo),
                key2 |-> get_cache_key(fin.k2, fin.timeframe, fin.geo)]
    /\ UNCHANGED <<fin, avars, cvars, pvars>>

NextKey == DoKey
SpecKey == InitKey /\ [][NextKey]_vars

\* The number of occurrences of x in s.
Count(s, x) == Cardinality({p \in 1..Len(s) : s[p] = x})
IsPermutation(s, t) ==
    /\ Len(s) = Len(t)
    /\ \A p \in 1..Len(s) : Count(s, s[p]) = Count(t, s[p])

\* C6: two keyword sequences that are permutations of each other, with the
\* same timeframe and region, get the same cache key.
C6_KeyPermutationInvariant ==
    (fop = "key" /\ IsPermutation(fin.k1, fin.k2)) => fout.key1 = fout.key2

\* Two different orders of three keywords have been keyed.
C6_Witness ==
    /\ fop = "key"
    /\ Len(fin.k1) = 3
    /\ fin.k1 # fin.k2
    /\ IsPermutation(fin.k1, fin.k2)
    /\ fin.k1 # sorted(fin.k1)
    /\ fin.k2 # sorted(fin.k2)
    /\ fout.key1 = fout.key2

\* C20: two keyword lists that differ as multisets, with the same timeframe
\* and region, get different cache keys (a keyword may hold the separator).
C20_DistinctBatchesDistinctKeys ==
    (fop = "key" /\ ~IsPermutation(fin.k1, fin.k2)) => fout.key1 # fout.key2

(***************************************************************************)
(* Tables (pandas DataFrames): an ascending index of dates, a list of      *)
(* column labels, and per column the list of its cells, one per row.       *)
(***************************************************************************)
Dates == {1, 2, 3}

RECURSIVE SortedSeq(_)
SortedSeq(S) ==
    IF S = {} THEN <<>>
    ELSE LET m == CHOOSE x \in S : \A y \in S : x <= y
         IN  <<m>> \o SortedSeq(S \ {m})

Elems(s) == {s[p] : p \in 1..Len(s)}
Position(s, x) == CHOOSE p \in 1..Len(s) : s[p] = x

\* df.empty
empty(df) == Len(df.index) = 0 \/ Len(df.columns) = 0

\* Index.union: the sorted union of two indices.
index_union_unsorted(a, b) ==
    a \o SelectSeq(b, LAMBDA t : t \notin Elems(a))

index_union(a, b) == SortedSeq(Elems(a) \cup Elems(b))

\* df.reindex(new_index): rows of new_index, missing where df has no such row.
reindex_zero(df, new_index) ==
    [index |-> new_index,
     columns |-> df.columns,
     data |-> [c \in 1..Len(df.columns) |->
                 [r \in 1..Len(new_index) |->
                     IF new_index[r] \in Elems(df.index)
                     THEN df.data[c][Position(df.index, new_index[r])]
                     ELSE 0]]]

reindex(df, new_index) ==
    [index |-> new_index,
     columns |-> df.columns,
     data |-> [c \in 1..Len(df.columns) |->
                 [r \in 1..Len(new_index) |->
                     IF new_index[r] \in Elems(df.index)
                     THEN df.data[c][Position(df.index, new_index[r])]
                     ELSE NaN]]]

RECURSIVE union_indexes(_)
union_indexes(dfs) ==
    IF Len(dfs) = 1 THEN dfs[1].index
    ELSE index_union(union_indexes(SubSeq(dfs, 1, Len(dfs) - 1)), dfs[Len(dfs)].index)

\* pd.concat(dfs, axis=1): outer join on the (date) index, columns side by side.
concat_axis1(dfs) ==
    LET idx == union_indexes(dfs)
        al == [j \in 1..Len(dfs) |-> reindex(dfs[j], idx)]
    IN  [index |-> idx,
         columns |-> Concat([j \in 1..Len(dfs) |-> al[j].columns]),
         data |-> Concat([j \in 1..Len(dfs) |-> al[j].data])]

\* The columns of df at the positions of keep, in order.
RECURSIVE TakeColumns(_, _, _)
TakeColumns(df, keep, p) ==
    IF p > Len(df.columns) THEN [index |-> df.index, columns |-> <<>>, data |-> <<>>]
    ELSE LET rest == TakeColumns(df, keep, p + 1)
         IN  IF p \in keep
             THEN [index |-> df.index,
                   columns |-> <<df.columns[p]>> \o rest.columns,
                   data |-> <<df.data[p]>> \o rest.data]
             ELSE rest

\* df.loc[:, ~df.columns.duplicated()]: the first occurrence of each label.
drop_duplicated_keep_last(df) ==
    TakeColumns(df, {p \in 1..Len(df.columns) :
                        \A q \in (p + 1)..Len(df.columns) : df.columns[q] # df.columns[p]}, 1)

drop_duplicated(df) ==
    TakeColumns(df, {p \in 1..Len(df.columns) :
                        \A q \in 1..(p - 1) : df.columns[q] # df.columns[p]}, 1)

\* df.drop(label, axis=1)
drop_column(df, label) ==
    TakeColumns(df, {p \in 1..Len(df.columns) : df.columns[p] # label}, 1)

\* app.py lines 84-86: the union of all indices.
RECURSIVE common_index(_)
common_index(tables) ==
    IF Len(tables) = 1 THEN tables[1].index
    ELSE index_union(common_index(SubSeq(tables, 1, Len(tables) - 1)),
                     tables[Len(tables)].index)

\* process_all_keywords, lines 83-99, for a non-empty all_data.
MergeApp(tables) ==
    LET ci == common_index(tables)
        aligned_data == [j \in 1..Len(tables) |-> reindex(tables[j], ci)]
        combined_data == drop_duplicated(concat_axis1(aligned_data))
    IN  IF isPartial \in Elems(combined_data.columns)
        THEN drop_column(combined_data, isPartial)
        ELSE combined_data

\* fetch_trends_data, lines 131-132, for a non-empty all_data.
MergeTrends(tables) == drop_duplicated(concat_axis1(tables))

(***************************************************************************)
(* The tables the service can hand out: the cell of version ver in column  *)
(* number c at date t is a score that differs by row, column and version,  *)
(* zero included.                                                          *)
(***************************************************************************)
Versions == {0, 1}
CellValue(ver, c, t) == ver * 10 + (t - 1) * 2 + (c - 1)

MakeTable(index, columns, ver) ==
    [index |-> index,
     columns |-> columns,
     data |-> [c \in 1..Len(columns) |-> [r \in 1..Len(index) |-> CellValue(ver, c, index[r])]]]

ColumnLists ==
    {<<kw_a>>, <<kw_b>>, <<kw_b, kw_a>>, <<kw_a, isPartial>>, <<kw_a, kw_b, isPartial>>}

TableSet ==
    {MakeTable(SortedSeq(D), cols, ver) :
        D \in (SUBSET Dates) \ {{}}, cols \in ColumnLists, ver \in Versions}

(***************************************************************************)
(* Specification of the merge: a non-empty list of non-empty tables is     *)
(* drawn, then merged both ways.                                           *)
(***************************************************************************)
InitMerge ==
    /\ fin \in [all_data : SeqsUpTo(TableSet, MaxTables) \ {<<>>}]
    /\ fout = None
    /\ app_cache = EmptyMap
    /\ fop = "none"
    /\ CacheIdle

DoMerge ==
    /\ fop = "none"
    /\ fop' = "merge"
    /\ fout' = [app |-> MergeApp(fin.all_data), trends |-> MergeTrends(fin.all_data)]
    /\ UNCHANGED <<fin, avars, cvars, pvars>>

NextMerge == DoMerge
SpecMerge == InitMerge /\ [][NextMerge]_vars

\* The first input table that carries label k: the one that supplies column k.
Supplier(tables, k) ==
    tables[CHOOSE j \in 1..Len(tables) :
                /\ k \in Elems(tables[j].columns)
                /\ \A q \in 1..(j - 1) : k \notin Elems(tables[q].columns)]

\* The cell of table df at date t in the column labelled k (NaN off the index).
SourceCell(df, k, t) ==
    IF t \in Elems(df.index)
    THEN df.data[Position(df.columns, k)][Position(df.index, t)]
    ELSE NaN

AllDates(tables) == UNION {Elems(tables[j].index) : j \in 1..Len(tables)}
Ascending(s) == \A p \in 1..(Len(s) - 1) : s[p] < s[p + 1]

UnionIndexed(m, tables) ==
    /\ Elems(m.index) = AllDates(tables)
    /\ Ascending(m.index)

CellsFromSupplier(m, tables) ==
    /\ Len(m.data) = Len(m.columns)
    /\ \A c \in 1..Len(m.columns) :
        /\ Len(m.data[c]) = Len(m.index)
        /\ \A r \in 1..Len(m.index) :
              m.data[c][r] = SourceCell(Supplier(tables, m.columns[c]), m.columns[c], m.index[r])

\* C8: the merged table's row index is the union of the input indices,
\* ascending and without duplicate; a cell whose date is absent from the
\* table that supplied its column is missing (NaN, not 0 and not a
\* neighbour's value), and every other cell keeps its source value.  Both
\* merges (process_all_keywords and fetch_trends_data).
C8_MergeIndexAndCells ==
    fop = "merge" =>
        /\ UnionIndexed(fout.app, fin.all_data)
        /\ CellsFromSupplier(fout.app, fin.all_data)
        /\ UnionIndexed(fout.trends, fin.all_data)
        /\ CellsFromSupplier(fout.trends, fin.all_data)

\* Two tables over different dates were merged: the result has a missing
\* cell, a zero cell taken from a source, and three rows.
C8_Witness ==
    /\ fop = "merge"
    /\ Len(fin.all_data) = 2
    /\ fin.all_data[1].index = <<1, 2>>
    /\ fin.all_data[2].index = <<2, 3>>
    /\ fout.app.index = <<1, 2, 3>>
    /\ fout.app.columns = <<kw_a, kw_b>>
    /\ fout.app.data[1] = <<0, 2, NaN>>
    /\ fout.app.data[2][1] = NaN
    /\ fout.trends.data[1] = <<0, 2, NaN>>

Occurrences(tables, k) == {j \in 1..Len(tables) : k \in Elems(tables[j].columns)}
AllLabels(tables) == UNION {Elems(tables[j].columns) : j \in 1..Len(tables)}

FirstWins(m, tables, k) ==
    /\ Count(m.columns, k) = 1
    /\ \A r \in 1..Len(m.index) :
          m.data[Position(m.columns, k)][r] = SourceCell(Supplier(tables, k), k, m.index[r])

\* C9 as stated: every label that occurs in more than one input table has
\* exactly one column in the merged table, with the first table's values.
C9_Original ==
    fop = "merge" =>
        \A k \in AllLabels(fin.all_data) :
            Cardinality(Occurrences(fin.all_data, k)) > 1 =>
                /\ FirstWins(fout.app, fin.all_data, k)
                /\ FirstWins(fout.trends, fin.all_data, k)

\* C9 (amended): a label that occurs in more than one input table has exactly
\* one column in the merged table, holding the values of the first table in
\* input order that carries it; the one exception is the bookkeeping label
\* isPartial in process_all_keywords, which has no column at all there.
C9_FirstOccurrenceWins ==
    fop = "merge" =>
        \A k \in AllLabels(fin.all_data) :
            Cardinality(Occurrences(fin.all_data, k)) > 1 =>
                /\ FirstWins(fout.trends, fin.all_data, k)
                /\ IF k = isPartial
                   THEN Count(fout.app.columns, k) = 0
                   ELSE FirstWins(fout.app, fin.all_data, k)

\* Two tables carry column a with different values over the same dates, and
\* the merged column a is the first table's.
C9_Witness ==
    /\ fop = "merge"
    /\ Len(fin.all_data) = 2
    /\ fin.all_data[1] = MakeTable(<<1, 2>>, <<kw_a>>, 0)
    /\ fin.all_data[2] = MakeTable(<<1, 2>>, <<kw_a>>, 1)
    /\ fout.app.columns = <<kw_a>>
    /\ fout.app.data = << <<0, 2>> >>
    /\ fout.trends.data = << <<0, 2>> >>

KeywordLabels(tables) == AllLabels(tables) \ {isPartial}

\* C17: neither merge returns the bookkeeping column isPartial, and both
\* keep every keyword column of the input tables.
C17_NoBookkeepingColumn ==
    fop = "merge" =>
        /\ isPartial \notin Elems(fout.app.columns)
        /\ isPartial \notin Elems(fout.trends.columns)
        /\ KeywordLabels(fin.all_data) \subseteq Elems(fout.app.columns)
        /\ KeywordLabels(fin.all_data) \subseteq Elems(fout.trends.columns)

\* What holds: process_all_keywords returns exactly the keyword columns, and
\* fetch_trends_data every column of its inputs, isPartial included.
MergedColumns ==
    fop = "merge" =>
        /\ Elems(fout.app.columns) = KeywordLabels(fin.all_data)
        /\ Elems(fout.trends.columns) = AllLabels(fin.all_data)

(***************************************************************************)
(* fetch_batch, lines 63-86: the retry loop.  The service answers each     *)
(* attempt (build_payload + interest_over_time) with a non-empty table     *)
(* ("data"), an empty table ("empty"), a transient error ("retryable":     *)
(* timeout, rate limit) or a malformed-request error ("terminal"); both    *)
(* errors are Python exceptions.  "data_save_error" is a non-empty table   *)
(* whose save_to_cache raises.  The trace lists what the loop did: one     *)
(* entry per call on the service (the answer), "save_error", "sleep".      *)
(***************************************************************************)
Responses == {"data", "data_save_error", "empty", "retryable", "terminal"}
CallEvents == {"data", "empty", "retryable", "terminal"}

\* Lines 81-84: the except branch of attempt number `attempt` (from 0).
OnException_sleep_always(attempt, trace) == trace \o <<"sleep">>

OnException(attempt, trace) ==
    IF attempt < MAX_RETRIES - 1 THEN trace \o <<"sleep">> ELSE trace

\* Lines 63-74 and 79-84: the attempts from `attempt` on, up to the first one
\* that returns a non-empty table (then `attempt` is that attempt and found is
\* TRUE) or to the end of the loop.
RECURSIVE Attempts(_, _, _)
Attempts(script, attempt, trace) ==
    IF attempt >= MAX_RETRIES
    THEN [found |-> FALSE, attempt |-> attempt, trace |-> trace]
    ELSE LET resp == script[attempt + 1]
         IN  IF resp \in {"retryable", "terminal"}
             THEN Attempts(script, attempt + 1, OnException(attempt, trace \o <<resp>>))
             ELSE IF resp \in {"data", "data_save_error"}
             THEN [found |-> TRUE, attempt |-> attempt, trace |-> trace \o <<"data">>]
             ELSE Attempts(script, attempt + 1, trace \o <<"empty">>)

\* Lines 63-86 as a whole: what fetch_batch returns after a cache miss, with
\* `data` the table the service hands out.
RECURSIVE RetryLoop(_, _, _, _)
RetryLoop(script, data, attempt, trace) ==
    LET a == Attempts(script, attempt, trace)
    IN  IF ~a.found
        THEN [ret |-> None, saved |-> FALSE, trace |-> a.trace]
        ELSE IF script[a.attempt + 1] = "data"
        THEN [ret |-> data, saved |-> TRUE, trace |-> a.trace]
        ELSE RetryLoop(script, data, a.attempt + 1,
                       OnException(a.attempt, a.trace \o <<"save_error">>))

(***************************************************************************)
(* Specification of the retry loop: the service's answers to the attempts  *)
(* are drawn, then the loop runs.                                          *)
(***************************************************************************)
InitRetry ==
    /\ fin \in [script : [1..MAX_RETRIES -> Responses],
                data : {MakeTable(<<1, 2>>, <<kw_a, kw_b, isPartial>>, 0)}]
    /\ fout = None
    /\ app_cache = EmptyMap
    /\ fop = "none"
    /\ CacheIdle

DoRetry ==
    /\ fop = "none"
    /\ fop' = "retry"
    /\ fout' = RetryLoop(fin.script, fin.data, 0, <<>>)
    /\ UNCHANGED <<fin, avars, cvars, pvars>>

NextRetry == DoRetry
SpecRetry == InitRetry /\ [][NextRetry]_vars

Calls(trace) == Cardinality({p \in 1..Len(trace) : trace[p] \in CallEvents})
Sleeps(trace) == Cardinality({p \in 1..Len(trace) : trace[p] = "sleep"})

\* C2: when every attempt raises a retryable error, the loop calls the
\* service exactly MAX_RETRIES times, sleeps between consecutive attempts and
\* not after the last one, and returns None.
C2_RetryExhaustion ==
    (fop = "retry" /\ \A p \in 1..MAX_RETRIES : fin.script[p] = "retryable") =>
        /\ fout.ret = None
        /\ Calls(fout.trace) = MAX_RETRIES
        /\ Len(fout.trace) = 2 * MAX_RETRIES - 1
        /\ \A p \in 1..Len(fout.trace) :
              fout.trace[p] = (IF p % 2 = 1 THEN "retryable" ELSE "sleep")

\* The loop ran against a service that fails every time.
C2_Witness ==
    /\ fop = "retry"
    /\ \A p \in 1..MAX_RETRIES : fin.script[p] = "retryable"
    /\ fout.trace = <<"retryable", "sleep", "retryable", "sleep", "retryable">>
    /\ fout.ret = None

\* C3: a terminal error on the first attempt ends the fetch: one call on the
\* service in all, no backoff delay, result None.
C3_TerminalNotRetried ==
    (fop = "retry" /\ fin.script[1] = "terminal") =>
        /\ fout.ret = None
        /\ Calls(fout.trace) = 1
        /\ Sleeps(fout.trace) = 0

\* C4: an empty table ends the fetch: no call on the service follows it, and
\* the result is None.
C4_EmptyNotRetried ==
    fop = "retry" =>
        \A p \in 1..Len(fout.trace) :
            fout.trace[p] = "empty" =>
                /\ \A q \in (p + 1)..Len(fout.trace) : fout.trace[q] \notin CallEvents
                /\ fout.ret = None

(***************************************************************************)
(* The file cache.  cache maps a key (a file name) to the file: its        *)
(* content and its modification time.  A file opened for writing is        *)
(* truncated until the dump completes.                                     *)
(***************************************************************************)
Truncated == [kind |-> "truncated"]
Raised(what) == [kind |-> "raised", error |-> what]
IsRaised(v) == "error" \in DOMAIN v

\* Line 34: datetime.now() - modification_time < CACHE_DURATION
NotExpired_inclusive(mtime, t) == t - mtime <= CACHE_DURATION

NotExpired(mtime, t) == t - mtime < CACHE_DURATION

\* Line 36: pickle.load of the file's content.
pickle_load(content) == IF content = Truncated THEN Raised("EOFError") ELSE content

\* get_cached_data, lines 29-37, on cache directory c at time t.
get_cached_data_miss(c, cache_key, t) == None

get_cached_data(c, cache_key, t) ==
    IF cache_key \in DOMAIN c /\ NotExpired(c[cache_key].mtime, t)
    THEN pickle_load(c[cache_key].content)
    ELSE None

\* What get_cached_data leaves of the cache directory: it deletes nothing.
after_get(c, cache_key, t) == c

WriteFile(c, cache_key, content, t) ==
    [k \in DOMAIN c \cup {cache_key} |->
        IF k = cache_key THEN [content |-> content, mtime |-> t] ELSE c[k]]

\* save_to_cache, line 43: open(cache_file, 'wb') creates or truncates the file.
open_wb(c, cache_key, t) == WriteFile(c, cache_key, Truncated, t)

\* save_to_cache, line 44: pickle.dump and the close of the file.
pickle_dump(c, cache_key, data, t) == WriteFile(c, cache_key, data, t)

\* save_to_cache, lines 39-44, run without interruption.
save_to_cache(c, cache_key, data, t) ==
    pickle_dump(open_wb(c, cache_key, t), cache_key, data, t)

(***************************************************************************)
(* Specification of the cache store: puts and gets of a few keys while the *)
(* clock advances through the instants around one hour and one TTL.        *)
(***************************************************************************)
TimePoints == {0, 1, CACHE_DURATION - 1, CACHE_DURATION, CACHE_DURATION + 1}
CacheKeys == {get_cache_key(b, today_5y, geo_DE) : b \in {<<kw_a>>, <<kw_b, kw_a>>}}
Payloads == {MakeTable(<<1, 2>>, <<kw_a, isPartial>>, v) : v \in Versions}

InitCache ==
    /\ fin = None
    /\ fout = None
    /\ app_cache = EmptyMap
    /\ fop = "none"
    /\ cache = EmptyMap
    /\ now = 0
    /\ lastGet = None
    /\ lastPut = EmptyMap
    /\ PipelineIdle

Tick ==
    /\ \E t \in TimePoints : t > now /\ now' = t
    /\ UNCHANGED <<avars, fvars, cache, lastGet, lastPut, pvars>>

Put(cache_key, data) ==
    /\ cache' = save_to_cache(cache, cache_key, data, now)
    /\ lastPut' = [k \in DOMAIN lastPut \cup {cache_key} |->
                      IF k = cache_key THEN [payload |-> data, at |-> now] ELSE lastPut[k]]
    /\ UNCHANGED <<avars, fvars, now, lastGet, pvars>>

Get(cache_key) ==
    /\ lastGet' = [key |-> cache_key, at |-> now,
                   result |-> get_cached_data(cache, cache_key, now),
                   put |-> IF cache_key \in DOMAIN lastPut THEN lastPut[cache_key] ELSE None,
                   existed |-> cache_key \in DOMAIN cache]
    /\ cache' = after_get(cache, cache_key, now)
    /\ UNCHANGED <<avars, fvars, now, lastPut, pvars>>

NextCache ==
    \/ Tick
    \/ \E k \in CacheKeys, d \in Payloads : Put(k, d)
    \/ \E k \in CacheKeys : Get(k)

SpecCache == InitCache /\ [][NextCache]_vars

\* C5: a get returns the payload of the most recent put of its key when less
\* than the TTL has passed since that put, and None when the key was never
\* put or the TTL has elapsed; a get deletes nothing: the file it looked at
\* is still there.
C5_GetPutTTL ==
    lastGet # None =>
        /\ IF lastGet.put # None /\ lastGet.at - lastGet.put.at < CACHE_DURATION
           THEN lastGet.result = lastGet.put.payload
           ELSE lastGet.result = None
        /\ (lastGet.existed => lastGet.key \in DOMAIN cache)
        /\ \A k \in DOMAIN lastPut : k \in DOMAIN cache

\* A get found a file exactly one TTL old and returned None, the file still
\* being there.
C5_ExpiredWitness ==
    /\ lastGet # None
    /\ lastGet.put # None
    /\ lastGet.at - lastGet.put.at = CACHE_DURATION
    /\ lastGet.result = None
    /\ lastGet.existed
    /\ lastGet.key \in DOMAIN cache

\* A get in the last hour of the TTL returned the payload that was put.
C5_Witness ==
    /\ lastGet # None
    /\ lastGet.put # None
    /\ lastGet.at - lastGet.put.at = CACHE_DURATION - 1
    /\ lastGet.result = lastGet.put.payload

(***************************************************************************)
(* The pipeline: fetch_trends_data (lines 88-134) runs on a keyword list,  *)
(* dispatching each chunk of batches to the executor's threads, each of    *)
(* which runs fetch_batch (lines 46-86) on its batch.                      *)
(*                                                                         *)
(* fetch_batch is declared async and line 111 calls it without awaiting    *)
(* it, so that as written the executor's thread only builds the coroutine  *)
(* and the gather collects coroutine objects.  The model describes the     *)
(* body of fetch_batch run to its return on the thread it is submitted to, *)
(* its return value being what the gather collects: the behaviour the      *)
(* retry, cache and merge code is written for.                             *)
(***************************************************************************)
KeywordLists ==
    {<<>>, <<kw_a>>, <<kw_a, kw_b, kw_c>>, <<kw_a, kw_b, kw_a_b>>, <<kw_a, kw_b, kw_b, kw_a>>,
     <<kw_a, kw_b, kw_c, kw_a, kw_b, kw_c, kw_a>>}

\* What the service may answer to the attempts of one fetch_batch, and the
\* tables it may hand out for a batch: the columns are the batch's keywords
\* and the bookkeeping column.
ServiceScripts == [1..MAX_RETRIES -> {"data", "empty", "retryable", "terminal"}]
ServiceAnswers == {[index |-> <<1, 2>>, ver |-> 0], [index |-> <<2, 3>>, ver |-> 1]}
interest_over_time(batch_keywords, ans) ==
    MakeTable(ans.index, batch_keywords \o <<isPartial>>, ans.ver)

\* One call of fetch_batch submitted to the executor: where it is, the thread
\* that runs it and the session it uses (0 when it is not running), what its
\* cache lookup found unexpired under its key (None: nothing), whether it
\* has called the service, the table it is saving and what it returned.
Task(batch) ==
    [batch |-> batch, pc |-> "queued", thread |-> 0, session |-> 0, seen |-> None,
     net |-> FALSE, data |-> None, ret |-> None]

\* What the loop of lines 63-86 can come to for a batch, up to the save: the
\* table of the first attempt that returned one (None when none did), and
\* the number of calls made on the service.
LoopOutcomes(batch_keywords) ==
    {LET a == Attempts(script, 0, <<>>)
     IN  [data |-> IF a.found THEN interest_over_time(batch_keywords, ans) ELSE None,
          calls |-> Calls(a.trace)] :
        script \in ServiceScripts, ans \in ServiceAnswers}

Finished(t) == t.pc \in {"done", "raised"}
Busy(w) == \E j \in 1..Len(tasks) : tasks[j].thread = w

\* Line 48: the key under which a thread looks its session up.
session_key_shared(thread_id) == 1

session_key(thread_id) == thread_id

\* Lines 51-52: the pool after the lookup of thread_id; a session is created
\* when the key is not in the pool.  Sessions are numbered as they are made.
get_session(pool, thread_id) ==
    IF session_key(thread_id) \in DOMAIN pool THEN pool
    ELSE [k \in DOMAIN pool \cup {session_key(thread_id)} |->
             IF k \in DOMAIN pool THEN pool[k] ELSE Cardinality(DOMAIN pool) + 1]

\* Lines 59-61: what fetch_batch does with the answer of get_cached_data.
on_cached_refetch(t, cached_data) ==
    IF IsRaised(cached_data)
    THEN [t EXCEPT !.pc = "raised", !.ret = cached_data, !.thread = 0, !.session = 0]
    ELSE [t EXCEPT !.pc = "loop"]

on_cached(t, cached_data) ==
    IF IsRaised(cached_data)
    THEN [t EXCEPT !.pc = "raised", !.ret = cached_data, !.thread = 0, !.session = 0]
    ELSE IF cached_data # None
    THEN [t EXCEPT !.pc = "done", !.ret = cached_data, !.thread = 0, !.session = 0]
    ELSE [t EXCEPT !.pc = "loop"]

\* What the cache directory holds unexpired under a key at time t.
Unexpired(c, cache_key, t) ==
    IF cache_key \in DOMAIN c /\ NotExpired(c[cache_key].mtime, t)
    THEN c[cache_key].content
    ELSE None

\* Line 116: the gather returns when every task of the chunk has.
gather_ready_any(ts) == \E j \in 1..Len(ts) : Finished(ts[j])

gather_ready(ts) == \A j \in 1..Len(ts) : Finished(ts[j])

\* Line 57: the key of a batch.
BatchKey(batch_keywords) == get_cache_key(batch_keywords, today_5y, geo_DE)

Init ==
    /\ fin = None
    /\ fout = None
    /\ app_cache = EmptyMap
    /\ fop = "none"
    /\ cache = EmptyMap
    /\ now = 0
    /\ lastGet = None
    /\ lastPut = EmptyMap
    /\ keywords \in KeywordLists
    /\ run = 0
    /\ rpc = "idle"
    /\ batches = <<>>
    /\ i = 0
    /\ all_data = <<>>
    /\ session_pool = EmptyMap
    /\ threads = 0
    /\ tasks = <<>>
    /\ started = 0
    /\ result = None
    /\ succeeded = {}
    /\ network_used = FALSE
    /\ prev = None

\* The oldest modification time among the cache files of the batches; None
\* when some batch has no file.
OldestEntry(bs) ==
    IF bs # <<>> /\ \A j \in 1..Len(bs) : BatchKey(bs[j]) \in DOMAIN cache
    THEN LET ms == {cache[BatchKey(bs[j])].mtime : j \in 1..Len(bs)}
         IN  [mtime |-> CHOOSE m \in ms : \A x \in ms : m <= x]
    ELSE None

\* fetch_trends_data is called (again): lines 90-99.  What the run before it
\* returned and left behind is remembered in prev.
StartRun ==
    /\ rpc \in {"idle", "done", "raised"}
    /\ run < MaxRuns
    /\ run > 0 => Len(batches) <= chunk_size
    /\ run' = run + 1
    /\ prev' = IF run = 0 THEN None
               ELSE [result |-> result, started |-> started, returned |-> rpc = "done",
                     all_success |-> rpc = "done" /\ succeeded = 1..Len(batches),
                     oldest |-> OldestEntry(batches)]
    /\ started' = now
    /\ batches' = Batches(keywords, batch_size)
    /\ all_data' = <<>>
    /\ session_pool' = EmptyMap
    /\ threads' = 0
    /\ i' = 0
    /\ tasks' = <<>>
    /\ result' = None
    /\ succeeded' = {}
    /\ network_used' = FALSE
    /\ rpc' = "loop"
    /\ UNCHANGED <<avars, fvars, cvars, keywords>>

\* Lines 103-113: the next chunk is submitted to the executor, which starts a
\* thread for a task when none is idle and it has fewer than max_workers.
DispatchChunk ==
    /\ rpc = "loop"
    /\ i < Len(batches)
    /\ LET chunk == Slice(batches, i, i + chunk_size)
       IN  /\ tasks' = [j \in 1..Len(chunk) |-> Task(chunk[j])]
           /\ threads' = Min(max_workers, Max(threads, Len(chunk)))
    /\ rpc' = "gather"
    /\ UNCHANGED <<avars, fvars, cvars, keywords, run, batches, i, all_data, session_pool,
                   started, result, succeeded, network_used, prev>>

\* Lines 48-54: an idle thread takes the next task off the executor's queue
\* and looks its session up, creating it when it has none.  Threads are
\* numbered in the order in which they first take a task.
TaskStart(j, w) ==
    /\ rpc = "gather"
    /\ tasks[j].pc = "queued"
    /\ \A q \in 1..(j - 1) : tasks[q].pc # "queued"
    /\ w <= threads
    /\ w <= Cardinality(DOMAIN session_pool) + 1
    /\ ~Busy(w)
    /\ session_pool' = get_session(session_pool, w)
    /\ tasks' = [tasks EXCEPT ![j].pc = "started", ![j].thread = w,
                              ![j].session = session_pool'[session_key(w)]]
    /\ UNCHANGED <<avars, fvars, cvars, keywords, run, rpc, batches, i, all_data, threads,
                   started, result, succeeded, network_used, prev>>

\* Lines 57-61: the cache is looked up; a hit is returned at once.  An
\* exception of get_cached_data leaves fetch_batch.
CacheCheck(j) ==
    /\ rpc = "gather"
    /\ tasks[j].pc = "started"
    /\ LET cached_data == get_cached_data(cache, BatchKey(tasks[j].batch), now)
           seen == Unexpired(cache, BatchKey(tasks[j].batch), now)
       IN  tasks' = [tasks EXCEPT ![j] = on_cached([tasks[j] EXCEPT !.seen = seen],
                                                   cached_data)]
    /\ UNCHANGED <<avars, fvars, cvars, keywords, run, rpc, batches, i, all_data, session_pool,
                   threads, started, result, succeeded, network_used, prev>>

\* Lines 63-74 and 79-86: the attempts, up to a non-empty table (line 74)
\* or the end of the loop (line 86).
FetchLoop(j) ==
    /\ rpc = "gather"
    /\ tasks[j].pc = "loop"
    /\ \E o \in LoopOutcomes(tasks[j].batch) :
        /\ network_used' = (network_used \/ o.calls > 0)
        /\ tasks' = IF o.data # None
                    THEN [tasks EXCEPT ![j].pc = "save", ![j].net = o.calls > 0,
                                       ![j].data = o.data]
                    ELSE [tasks EXCEPT ![j].pc = "done", ![j].net = o.calls > 0,
                                       ![j].ret = None, ![j].thread = 0, ![j].session = 0]
    /\ UNCHANGED <<avars, fvars, cvars, keywords, run, rpc, batches, i, all_data, session_pool,
                   threads, started, result, succeeded, prev>>

\* Line 76, save_to_cache line 43: the cache file is opened for writing.
SaveOpen(j) ==
    /\ rpc = "gather"
    /\ tasks[j].pc = "save"
    /\ cache' = open_wb(cache, BatchKey(tasks[j].batch), now)
    /\ tasks' = [tasks EXCEPT ![j].pc = "dump"]
    /\ UNCHANGED <<avars, fvars, now, lastGet, lastPut, keywords, run, rpc, batches, i, all_data,
                   session_pool, threads, started, result, succeeded, network_used, prev>>

\* save_to_cache line 44 and fetch_batch line 77: the table is dumped, the
\* file closed and the table returned.
SaveDump(j) ==
    /\ rpc = "gather"
    /\ tasks[j].pc = "dump"
    /\ cache' = pickle_dump(cache, BatchKey(tasks[j].batch), tasks[j].data, now)
    /\ tasks' = [tasks EXCEPT ![j].pc = "done", ![j].ret = tasks[j].data, ![j].data = None,
                              ![j].thread = 0, ![j].session = 0]
    /\ UNCHANGED <<avars, fvars, now, lastGet, lastPut, keywords, run, rpc, batches, i, all_data,
                   session_pool, threads, started, result, succeeded, network_used, prev>>

\* The results of the chunk that are not None, in the order of the chunk.
RECURSIVE NotNone(_)
NotNone(ts) ==
    IF ts = <<>> THEN <<>>
    ELSE (IF Head(ts).ret # None THEN <<Head(ts).ret>> ELSE <<>>) \o NotNone(Tail(ts))

\* Lines 116-121: every task of the chunk has returned; the tables are kept
\* and, when batches are left, the pacing delay is taken.  An exception of a
\* task leaves fetch_trends_data (after the executor's threads have ended).
Gather ==
    /\ rpc = "gather"
    /\ gather_ready(tasks)
    /\ IF \E j \in 1..Len(tasks) : tasks[j].pc = "raised"
       THEN /\ rpc' = "raised"
            /\ result' = tasks[CHOOSE j \in 1..Len(tasks) : tasks[j].pc = "raised"].ret
            /\ UNCHANGED <<all_data, succeeded>>
       ELSE /\ all_data' = all_data \o NotNone(tasks)
            /\ succeeded' = succeeded \cup {i + j : j \in {q \in 1..Len(tasks) : tasks[q].ret # None}}
            /\ rpc' = IF i + chunk_size < Len(batches) THEN "pace" ELSE "next"
            /\ UNCHANGED result
    /\ tasks' = <<>>
    /\ UNCHANGED <<avars, fvars, cvars, keywords, run, batches, i, session_pool, threads, started,
                   network_used, prev>>

\* Line 121: the delay between chunks.
Pace ==
    /\ rpc = "pace"
    /\ rpc' = "next"
    /\ UNCHANGED <<avars, fvars, cvars, keywords, run, batches, i, all_data, session_pool, threads,
                   tasks, started, result, succeeded, network_used, prev>>

\* Line 103: the loop steps to the next chunk.
NextChunk ==
    /\ rpc = "next"
    /\ i' = i + chunk_size
    /\ rpc' = "loop"
    /\ UNCHANGED <<avars, fvars, cvars, keywords, run, batches, all_data, session_pool, threads,
                   tasks, started, result, succeeded, network_used, prev>>

\* Lines 123-134: no table, no result; else the tables are merged.
Return ==
    /\ rpc = "loop"
    /\ i >= Len(batches)
    /\ result' = IF all_data = <<>> THEN None ELSE MergeTrends(all_data)
    /\ rpc' = "done"
    /\ UNCHANGED <<avars, fvars, cvars, keywords, run, batches, i, all_data, session_pool, threads,
                   tasks, started, succeeded, network_used, prev>>

\* Time passes: to the last hour of the TTL of a file written at 0, and to
\* the hour it expires.
RunTimes == {0, CACHE_DURATION - 1, CACHE_DURATION}

Clock ==
    /\ \E t \in RunTimes : t > now /\ now' = t
    /\ UNCHANGED <<avars, fvars, cache, lastGet, lastPut, pvars>>

Next ==
    \/ StartRun
    \/ DispatchChunk
    \/ \E j \in 1..chunk_size, w \in 1..max_workers : j <= Len(tasks) /\ TaskStart(j, w)
    \/ \E j \in 1..chunk_size : j <= Len(tasks) /\ CacheCheck(j)
    \/ \E j \in 1..chunk_size : j <= Len(tasks) /\ FetchLoop(j)
    \/ \E j \in 1..chunk_size : j <= Len(tasks) /\ SaveOpen(j)
    \/ \E j \in 1..chunk_size : j <= Len(tasks) /\ SaveDump(j)
    \/ Gather
    \/ Pace
    \/ NextChunk
    \/ Return
    \/ Clock

Spec == Init /\ [][Next]_vars

TypeOK ==
    /\ run \in 0..MaxRuns
    /\ rpc \in {"idle", "loop", "gather", "pace", "next", "done", "raised"}
    /\ Len(tasks) <= chunk_size

\* The keywords of the batches that returned a table in this run.
SucceededKeywords == UNION {Elems(batches[j]) : j \in succeeded}

\* C7: a run returns None exactly when no batch returned a table; otherwise
\* it returns a table whose columns are exactly the keywords of the batches
\* that did.
C7_RunOutcome ==
    rpc = "done" =>
        /\ (result = None) <=> (succeeded = {})
        /\ (result # None) => Elems(result.columns) = SucceededKeywords

\* What holds of the run's result: the same, the bookkeeping column apart.
RunOutcomeButBookkeeping ==
    rpc = "done" =>
        /\ (result = None) <=> (succeeded = {})
        /\ (result # None) => Elems(result.columns) \ {isPartial} = SucceededKeywords

DistinctKeys(bs) ==
    \A j, k \in 1..Len(bs) : j # k => BatchKey(bs[j]) # BatchKey(bs[k])

\* C10: a re-run on the same keywords, ending while every cache file the
\* first run left is less than a TTL old, after a first run all of whose
\* batches returned a table, calls the service for nothing and returns the
\* table the first run returned.
C10_Idempotence ==
    (/\ rpc = "done"
     /\ prev # None
     /\ prev.all_success
     /\ prev.oldest # None
     /\ now - prev.oldest.mtime < CACHE_DURATION) =>
        /\ ~network_used
        /\ result = prev.result

\* The same for any first run that returned a table, the TTL counted from
\* its start: a batch that returned no table left no cache file, and the
\* re-run calls the service for it.
IdempotentAfterAnyRun ==
    (/\ rpc = "done"
     /\ prev # None
     /\ prev.returned
     /\ prev.result # None
     /\ now - prev.started < CACHE_DURATION) =>
        /\ ~network_used
        /\ result = prev.result

\* What holds: the same as C10_Idempotence when no two batches have the same
\* cache key.
IdempotentOnDistinctKeys ==
    (/\ rpc = "done"
     /\ prev # None
     /\ prev.all_success
     /\ DistinctKeys(batches)
     /\ prev.oldest # None
     /\ now - prev.oldest.mtime < CACHE_DURATION) =>
        /\ ~network_used
        /\ result = prev.result

\* A second run over two batches ended in the last hour of the TTL, served
\* from the cache alone, with the first run's table.
IdempotentReached ==
    /\ rpc = "done"
    /\ run = 2
    /\ Len(batches) = 2
    /\ prev # None
    /\ prev.all_success
    /\ DistinctKeys(batches)
    /\ prev.oldest # None
    /\ now - prev.oldest.mtime = CACHE_DURATION - 1
    /\ ~network_used
    /\ result # None
    /\ result = prev.result
    /\ Len(result.index) = 3

(***************************************************************************)
(* The batches of a chunk while they run.                                  *)
(***************************************************************************)
\* A complete payload: a table, not the content of a file being written.
IsPayload(v) == v # None /\ v # Truncated /\ ~IsRaised(v)

C12_NoBatchErrorEscapes == rpc # "raised"

\* The batches of the chunk that are dispatched and have not returned.
InFlight == {j \in 1..Len(tasks) : ~Finished(tasks[j])}
Running == {j \in 1..Len(tasks) : tasks[j].thread # 0}

\* C13: at most max_workers batches are in flight, and fetch_trends_data
\* leaves the gather of a chunk (towards the next chunk, the pacing delay or
\* its return) only when no batch of the chunk is in flight.
C13_BoundedInFlight ==
    /\ [](Cardinality(InFlight) <= max_workers /\ Cardinality(Running) <= threads
          /\ threads <= max_workers)
    /\ [][(rpc = "gather" /\ rpc' # "gather") => InFlight = {}]_vars

\* The second chunk is in flight, after a first chunk of chunk_size batches.
C13_Witness ==
    /\ i = chunk_size
    /\ rpc = "gather"
    /\ InFlight # {}
    /\ Len(all_data) = chunk_size

\* C14: two running batches never use the same session; a running batch uses
\* the session stored under its own thread; the pool holds one session per
\* thread that has asked for one, each made once, and no more sessions than
\* threads.
C14_SessionPerWorker ==
    /\ \A j, k \in Running : j # k => tasks[j].session # tasks[k].session
    /\ \A j \in Running :
        /\ tasks[j].thread \in DOMAIN session_pool
        /\ tasks[j].session = session_pool[tasks[j].thread]
    /\ DOMAIN session_pool \subseteq 1..threads
    /\ {session_pool[w] : w \in DOMAIN session_pool} = 1..Cardinality(DOMAIN session_pool)
    /\ threads <= max_workers

\* In the second chunk a thread runs a batch with the session it made in the
\* first chunk, while the pool holds chunk_size sessions.
C14_Witness ==
    /\ i = chunk_size
    /\ Cardinality(DOMAIN session_pool) = chunk_size
    /\ \E j \in Running : tasks[j].session = session_pool[tasks[j].thread]

\* C15: a cache file that holds an unexpired payload is never changed: not
\* its content, not its modification time.
C15_EntriesImmutable ==
    [][\A k \in DOMAIN cache :
          (IsPayload(cache[k].content) /\ NotExpired(cache[k].mtime, now)) =>
              (k \in DOMAIN cache' /\ cache'[k] = cache[k])]_vars

\* What holds: a file is only ever written by a batch whose own lookup found
\* nothing unexpired under the key.
WritesFollowAMiss ==
    \A j \in 1..Len(tasks) : tasks[j].pc \in {"save", "dump"} => tasks[j].seen = None

\* C16: no lookup of a batch ends in an error or returns the content of a
\* file that is being written.
C16_GetsSeeCompletePayloads ==
    \A j \in 1..Len(tasks) :
        /\ ~IsRaised(tasks[j].ret)
        /\ tasks[j].seen # Truncated

(***************************************************************************)
(* Specification of a run over a warm cache: the keyword list has four     *)
(* batches, and an earlier run has left the tables of the first chunk's    *)
(* batches in the cache directory.                                         *)
(***************************************************************************)
WarmKeywords == <<kw_a, kw_b, kw_c, kw_a, kw_b, kw_c, kw_a>>

\* The cache directory after save_to_cache of a table for each batch of bs.
RECURSIVE SaveAll(_, _, _)
SaveAll(c, bs, t) ==
    IF bs = <<>> THEN c
    ELSE SaveAll(save_to_cache(c, BatchKey(Head(bs)),
                               interest_over_time(Head(bs), [index |-> <<1, 2>>, ver |-> 0]), t),
                 Tail(bs), t)

InitWarm ==
    /\ fin = None
    /\ fout = None
    /\ app_cache = EmptyMap
    /\ fop = "none"
    /\ cache = SaveAll(EmptyMap, Slice(Batches(WarmKeywords, batch_size), 0, chunk_size), 0)
    /\ now = 0
    /\ lastGet = None
    /\ lastPut = EmptyMap
    /\ keywords = WarmKeywords
    /\ run = 0
    /\ rpc = "idle"
    /\ batches = <<>>
    /\ i = 0
    /\ all_data = <<>>
    /\ session_pool = EmptyMap
    /\ threads = 0
    /\ tasks = <<>>
    /\ started = 0
    /\ result = None
    /\ succeeded = {}
    /\ network_used = FALSE
    /\ prev = None

SpecWarm == InitWarm /\ [][Next]_vars

\* C18: the pacing delay is not taken after a chunk all of whose batches were
\* answered from the cache.
C18_NoPacingAfterHits ==
    [][(rpc = "gather" /\ rpc' = "pace") =>
          \E j \in 1..Len(tasks) : ~IsPayload(tasks[j].seen)]_vars

\* What holds: the delay is taken after every chunk but the last, whatever
\* answered its batches.
PacingAfterEveryChunkButLast ==
    [][(rpc = "gather" /\ rpc' \in {"pace", "next"}) =>
          (rpc' = "pace" <=> i + chunk_size < Len(batches))]_vars

(***************************************************************************)
(* The app: cached_fetch_trends_data (app.py, lines 46-57) under           *)
(* st.cache_data(ttl=3600), which stores what the function returned under  *)
(* its argument and answers later calls with it for one hour, and the      *)
(* "Clear Cache" button (lines 27-29).  fetch_trends_data is taken here    *)
(* one batch after the other.                                              *)
(***************************************************************************)
app_ttl == 1

\* What the retry loop of a batch comes to: no table, or the table of an
\* answer of the service.
ServiceOutcomes == {None} \cup ServiceAnswers
fetched(batch_keywords, out) ==
    IF out = None THEN None ELSE interest_over_time(batch_keywords, out)

\* fetch_trends_data, lines 103-117, batch after batch: outs[j] is what the
\* service has for batch j when its lookup misses.
RECURSIVE FetchSeq(_, _, _, _, _, _)
FetchSeq(c, bs, outs, t, tables, net) ==
    IF bs = <<>> THEN [all_data |-> tables, cache |-> c, net |-> net]
    ELSE LET cache_key == BatchKey(Head(bs))
             cached_data == get_cached_data(c, cache_key, t)
         IN  IF cached_data # None
             THEN FetchSeq(c, Tail(bs), Tail(outs), t, tables \o <<cached_data>>, net)
             ELSE IF Head(outs) # None
             THEN FetchSeq(save_to_cache(c, cache_key, fetched(Head(bs), Head(outs)), t),
                           Tail(bs), Tail(outs), t,
                           tables \o <<fetched(Head(bs), Head(outs))>>, TRUE)
             ELSE FetchSeq(c, Tail(bs), Tail(outs), t, tables, TRUE)

\* fetch_trends_data, lines 88-134, on cache directory c at time t.
fetch_trends_data(c, kws, outs, t) ==
    LET r == FetchSeq(c, Batches(kws, batch_size), outs, t, <<>>, FALSE)
    IN  [result |-> IF r.all_data = <<>> THEN None ELSE MergeTrends(r.all_data),
         cache |-> r.cache, net |-> r.net]

\* st.cache_data: whether a stored value is returned without a call, and
\* whether a returned value is stored.
cache_data_fresh(store, args, t) == args \in DOMAIN store /\ t - store[args].at < app_ttl

cache_data_stores(value) == TRUE

cache_data_put(store, args, value, t) ==
    IF cache_data_stores(value)
    THEN [k \in DOMAIN store \cup {args} |->
             IF k = args THEN [value |-> value, at |-> t] ELSE store[k]]
    ELSE store

AppBatches == {<<kw_a>>, <<kw_a, kw_b, kw_c>>}
AppTimes == {0, app_ttl}

InitApp ==
    /\ fin = None
    /\ fout = None
    /\ app_cache = EmptyMap
    /\ fop = "none"
    /\ cache = EmptyMap
    /\ now = 0
    /\ lastGet = None
    /\ lastPut = EmptyMap
    /\ PipelineIdle

\* cached_fetch_trends_data(keywords_batch): answered from the store, or
\* computed (lines 49-57) and stored.
CachedFetch(keywords_batch) ==
    /\ fin' = keywords_batch
    /\ fop' = "cached_fetch"
    /\ IF cache_data_fresh(app_cache, keywords_batch, now)
       THEN /\ fout' = [result |-> app_cache[keywords_batch].value, called |-> FALSE,
                        net |-> FALSE,
                        stored |-> app_cache[keywords_batch]]
            /\ UNCHANGED <<app_cache, cache>>
       ELSE \E outs \in [1..Len(Batches(keywords_batch, batch_size)) -> ServiceOutcomes] :
               LET r == fetch_trends_data(cache, keywords_batch, outs, now)
               IN  /\ fout' = [result |-> r.result, called |-> TRUE, net |-> r.net,
                               stored |-> None]
                   /\ cache' = r.cache
                   /\ app_cache' = cache_data_put(app_cache, keywords_batch, r.result, now)
    /\ UNCHANGED <<now, lastGet, lastPut, pvars>>

\* Time passes: to the hour at which the entries of the store expire.
AppClock ==
    /\ \E t \in AppTimes : t > now /\ now' = t
    /\ UNCHANGED <<avars, fvars, cache, lastGet, lastPut, pvars>>

\* Lines 27-29: st.cache_data.clear().
ClearCache ==
    /\ app_cache # EmptyMap
    /\ app_cache' = EmptyMap
    /\ UNCHANGED <<fvars, cvars, pvars>>

NextApp ==
    \/ AppClock
    \/ \E kb \in AppBatches : CachedFetch(kb)
    \/ ClearCache

SpecApp == InitApp /\ [][NextApp]_vars

\* C19: every entry of the file cache and of the st.cache_data store is a
\* non-empty table, and no call is answered from a store with the outcome of
\* a fetch that returned no table.
C19_OnlySuccessCached ==
    /\ \A k \in DOMAIN cache : IsPayload(cache[k].content) /\ ~empty(cache[k].content)
    /\ \A kb \in DOMAIN app_cache :
        app_cache[kb].value # None /\ ~empty(app_cache[kb].value)
    /\ (fop = "cached_fetch" /\ ~fout.called) => fout.result # None

\* What holds: the file cache holds non-empty tables only.
FileCacheHoldsTables ==
    \A k \in DOMAIN cache : IsPayload(cache[k].content) /\ ~empty(cache[k].content)

====
